---- MODULE Spec2Model ----
(***************************************************************************)
(* Model of apps/trim-tag-convert-video-audio.py: the per-item pipeline    *)
(* (pipeline), the batch runner (trim_tag_convert_marketing_yt) and the    *)
(* process entry point (main).                                             *)
(*                                                                         *)
(* Python values are encoded as integers where they are compared with exit *)
(* codes: None is -1 and "an exception escaped" is -2.  Sequences are      *)
(* 1-based, so the Python index v of a list is v + 1 here.                 *)
(***************************************************************************)
EXTENDS Integers, Sequences, FiniteSets, TLC

\* ------------------------------------------------------------------ bounds
\* number of yaml files given on the command line (nargs='+': at least one)
MaxYamls == 2
\* total number of performance entries over all yaml files
MaxPerformances == 2
\* largest non-zero exit code an external tool returns
MaxExitCode == 2
\* largest track number written in a manifest
MaxTrack == 2

\* ------------------------------------------------------- program constants
MAX_WORKERS == 2
None == -1
Raised == -2

MODES == {"trim", "mp3", "tag", "thumb", "gif", "market", "yt"}
\* the stages of pipeline in the order of its if-blocks
STAGES == <<"trim", "mp3", "tag", "thumb", "gif">>

ExitCodes == 0..MaxExitCode

VARIABLES
    args,         \* parsed command line: confirm, sequential, modes
    pc,           \* position of the main thread
    loaded,       \* yaml files read so far and the performance entries they held
    manifest,     \* the merged manifest: defaults and performances
    videos,       \* the constructed Video objects, in list order
    problems,     \* the collected problems
    answer,       \* what input() gave at the prompt
    pipe,         \* per video: the state of its pipeline call
    doneq,        \* worker pool: finished futures not yet yielded by as_completed
    handled,      \* worker pool: futures yielded by as_completed, in order
    return_code,  \* local return_code of the batch runner
    retval,       \* value the batch runner returned
    exc,          \* exception that escaped the batch runner ("" when none)
    marketing,    \* whether marketing.txt was written
    youtube,      \* videos whose youtube.txt was written
    exitStatus    \* exit status of the process (None while running)

vars == <<args, pc, loaded, manifest, videos, problems, answer, pipe, doneq,
          handled, return_code, retval, exc, marketing, youtube, exitStatus>>

\* --------------------------------------------------------------- helpers
SeqsUpTo(S, n) == UNION {[1..k -> S] : k \in 0..n}

Perms(s) ==
    {t \in [1..Len(s) -> {s[k] : k \in 1..Len(s)}] :
        \A a, b \in 1..Len(s) : a # b => t[a] # t[b]}

\* modes = modes or MODES
EffModes(m) == IF m = {} THEN MODES ELSE m

\* ------------------------------------------------------- manifest merging
\* dict.update: keys of d2 win
DictUpdate(d1, d2) ==
    [k \in (DOMAIN d1) \cup (DOMAIN d2) |->
        IF k \in DOMAIN d2 THEN d2[k] ELSE d1[k]]

\* list.extend
ListExtend(l1, l2) == l1 \o l2

\* One yaml file: its defaults get the manifest_* keys of this file, then the
\* file is absorbed into the combined manifest.
AbsorbYaml(m, man, n) ==
    [defaults |-> DictUpdate(m.defaults,
                             DictUpdate(man.defaults, [k \in {"manifest_filepath"} |-> n])),
     performances |-> ListExtend(m.performances, man.performances)]

\* ------------------------------------------------------- Video (library)
\* Video(**defaults): a field that is not given is None
DefaultVideo(defaults) ==
    [track_num |-> IF "track_num" \in DOMAIN defaults THEN defaults["track_num"] ELSE None]

\* Video.from_other raises for an entry it cannot build
CanConstruct(performance) == performance.kind # "bad"

\* Video.from_other(default_video, **performance): the entry's fields override
FromOther(default_video, performance, p) ==
    [p |-> p,
     track_num |-> IF performance.track_num # None THEN performance.track_num
                   ELSE default_video.track_num,
     tagged |-> performance.kind = "ok"]

\* video.problems(): the tags that would be missing
VideoProblems(video) == IF video.tagged THEN <<>> ELSE <<[what |-> "tags", idx |-> video.p]>>

\* ------------------------------------------------------- construction loop
\* variant: the loop gives up at the first entry that cannot be built
RECURSIVE BuildVideosAbort(_, _, _)
BuildVideosAbort(default_video, performances, p) ==
    IF p > Len(performances) THEN [videos |-> <<>>, problems |-> <<>>]
    ELSE IF CanConstruct(performances[p])
         THEN LET rest == BuildVideosAbort(default_video, performances, p + 1) IN
              [videos |-> <<FromOther(default_video, performances[p], p - 1)>> \o rest.videos,
               problems |-> rest.problems]
         ELSE [videos |-> <<>>,
               problems |-> <<[what |-> "performance", idx |-> p - 1]>>]

RECURSIVE BuildVideos(_, _, _)
BuildVideos(default_video, performances, p) ==
    IF p > Len(performances) THEN [videos |-> <<>>, problems |-> <<>>]
    ELSE LET rest == BuildVideos(default_video, performances, p + 1) IN
         IF CanConstruct(performances[p])
         THEN [videos |-> <<FromOther(default_video, performances[p], p - 1)>> \o rest.videos,
               problems |-> rest.problems]
         ELSE [videos |-> rest.videos,
               problems |-> <<[what |-> "performance", idx |-> p - 1]>> \o rest.problems]

\* variant: track_num = v, the 0-based index
AssignTrackNumsZeroBased(vs) ==
    [v \in DOMAIN vs |->
        IF vs[v].track_num # None THEN vs[v] ELSE [vs[v] EXCEPT !.track_num = v - 1]]

\* for v, video in enumerate(videos): track_num = v + 1 unless already set
AssignTrackNums(vs) ==
    [v \in DOMAIN vs |->
        IF vs[v].track_num # None THEN vs[v] ELSE [vs[v] EXCEPT !.track_num = v]]

RECURSIVE TagProblems(_)
TagProblems(vs) ==
    IF vs = <<>> THEN <<>> ELSE VideoProblems(Head(vs)) \o TagProblems(Tail(vs))

\* ------------------------------------------------------------- pipeline
\* a pipeline call that has not started: no frame, no locals
IdlePipe == [pc |-> "idle", exit_code |-> None, bound |-> {}, ran |-> <<>>]

Finished(r) == r.pc \in {"returned", "raised"}

\* what future.result() gives: the returned exit code, or the exception
Result(r) == IF r.pc = "raised" THEN Raised ELSE r.exit_code

\* the next if-block after block k whose mode is selected; none: the final return
StageAfter(k, modes) ==
    IF \E j \in (k + 1)..Len(STAGES) : STAGES[j] \in modes
    THEN STAGES[CHOOSE j \in (k + 1)..Len(STAGES) :
                    /\ STAGES[j] \in modes
                    /\ \A h \in (k + 1)..(j - 1) : STAGES[h] \notin modes]
    ELSE "returned"

\* fall through to the next selected block, or to "return exit_code"
Advance(r, k, modes) == [r EXCEPT !.pc = StageAfter(k, modes)]

\* return exit_code in the middle of the function
ReturnNow(r) == [r EXCEPT !.pc = "returned"]

\* an exception leaves the function
Raise(r) == [r EXCEPT !.pc = "raised"]

Started(r, stage, code) == [r EXCEPT !.ran = Append(@, <<stage, code>>)]

\* entry of pipeline: modes = modes or MODES, makedirs, exit_code = 0
Enter(r, modes) == Advance([IdlePipe EXCEPT !.exit_code = 0], 0, modes)

\* if 'trim' in modes: copy when neither start nor stop is set, else run ffmpeg
TrimOutcomes(r, modes) ==
    LET b == [r EXCEPT !.bound = @ \cup {"video_filepath"}]
        copied == Advance(Started(b, "trim", b.exit_code), 1, modes)
        ran(code) == LET c == Started([b EXCEPT !.exit_code = code], "trim", code)
                     IN IF code # 0 THEN ReturnNow(c) ELSE Advance(c, 1, modes)
    IN {copied} \cup {ran(code) : code \in ExitCodes}

\* variant: a failing mp3 conversion is logged but the function goes on
Mp3OutcomesNoReturn(r, modes) ==
    LET b == [r EXCEPT !.bound = @ \cup {"audio_filepath"}]
        ran(code) == Advance(Started([b EXCEPT !.exit_code = code], "mp3", code), 2, modes)
    IN IF "video_filepath" \notin r.bound
       THEN {Raise(Started(b, "mp3", Raised))}
       ELSE {ran(code) : code \in ExitCodes}

\* if 'mp3' in modes: reads video_filepath, which only the trim block assigns
Mp3Outcomes(r, modes) ==
    LET b == [r EXCEPT !.bound = @ \cup {"audio_filepath"}]
        ran(code) == LET c == Started([b EXCEPT !.exit_code = code], "mp3", code)
                     IN IF code # 0 THEN ReturnNow(c) ELSE Advance(c, 2, modes)
    IN IF "video_filepath" \notin r.bound
       THEN {Raise(Started(b, "mp3", Raised))}
       ELSE {ran(code) : code \in ExitCodes}

\* if 'tag' in modes: reads audio_filepath, which only the mp3 block assigns;
\* tag_mp3 returns nothing and reports a failure by raising
TagOutcomes(r, modes) ==
    IF "audio_filepath" \notin r.bound
    THEN {Raise(Started(r, "tag", Raised))}
    ELSE {Raise(Started(r, "tag", Raised)), Advance(Started(r, "tag", 0), 3, modes)}

\* if 'thumb' in modes: reads video_filepath; generate_thumbnails returns the
\* thumbnail paths and reports a failure by raising
ThumbOutcomes(r, modes) ==
    LET b == [r EXCEPT !.bound = @ \cup {"thumbnail_filepaths"}]
    IN IF "video_filepath" \notin r.bound
       THEN {Raise(Started(r, "thumb", Raised))}
       ELSE {Raise(Started(r, "thumb", Raised)), Advance(Started(b, "thumb", 0), 4, modes)}

\* variant: the test of `passed` is inverted
GifOutcomesInverted(r, modes) ==
    LET ran(passed) == LET code == IF passed THEN 1 ELSE r.exit_code
                       IN Advance(Started([r EXCEPT !.exit_code = code], "gif",
                                          IF passed THEN 0 ELSE 1), 5, modes)
    IN IF "thumbnail_filepaths" \notin r.bound
       THEN {Raise(Started(r, "gif", Raised))}
       ELSE {ran(passed) : passed \in BOOLEAN}

\* if 'gif' in modes: reads thumbnail_filepaths, which only the thumb block
\* assigns; exit_code = 1 when generate_gif did not pass; then the final return
GifOutcomes(r, modes) ==
    LET ran(passed) == LET code == IF passed THEN r.exit_code ELSE 1
                       IN Advance(Started([r EXCEPT !.exit_code = code], "gif",
                                          IF passed THEN 0 ELSE 1), 5, modes)
    IN IF "thumbnail_filepaths" \notin r.bound
       THEN {Raise(Started(r, "gif", Raised))}
       ELSE {ran(passed) : passed \in BOOLEAN}

StageOutcomes(stage, r, modes) ==
    CASE stage = "trim" -> TrimOutcomes(r, modes)
      [] stage = "mp3" -> Mp3Outcomes(r, modes)
      [] stage = "tag" -> TagOutcomes(r, modes)
      [] stage = "thumb" -> ThumbOutcomes(r, modes)
      [] stage = "gif" -> GifOutcomes(r, modes)

\* ------------------------------------------------------------ the prompt
\* characters typed at the prompt
Lower(c) == CASE c = "Y" -> "y" [] c = "N" -> "n" [] OTHER -> c

RECURSIVE LStrip(_)
LStrip(s) == IF s # <<>> /\ Head(s) = " " THEN LStrip(Tail(s)) ELSE s

RECURSIVE RStrip(_)
RStrip(s) == IF s # <<>> /\ s[Len(s)] = " " THEN RStrip(SubSeq(s, 1, Len(s) - 1)) ELSE s

\* input(...).strip().lower()
StripLower(s) == LET t == RStrip(LStrip(s)) IN [k \in 1..Len(t) |-> Lower(t[k])]

\* variant: 'y' in yes
StartsWithYAnywhere(s) == \E k \in DOMAIN s : s[k] = "y"

\* yes.startswith('y')
StartsWithY(s) == s # <<>> /\ s[1] = "y"

\* lines the operator may type
Answers == {<<"y">>, <<" ", "Y">>, <<"n">>, <<"N", "y">>, <<" ">>, <<>>}

\* ------------------------------------------------------------------ inputs
\* the batch runs: entries that build, entries that build with tags missing,
\* entries Video.from_other rejects; no track numbers written in the manifests
BatchEntries == [kind : {"ok", "untagged", "bad"}, track_num : {None}]
BatchManifests == [defaults : {<<>>}, performances : SeqsUpTo(BatchEntries, MaxPerformances)]
\* the default mode list and every single mode on its own
BatchModes == {MODES} \cup {{m} : m \in MODES}

\* the merge: track numbers given per entry, in the defaults, or not at all
MergeEntries == [kind : {"ok", "bad"}, track_num : {None} \cup (1..MaxTrack)]
MergeDefaults == {<<>>} \cup {[k \in {"track_num"} |-> t] : t \in 1..MaxTrack}
MergeManifests == [defaults : MergeDefaults, performances : SeqsUpTo(MergeEntries, MaxPerformances)]

\* ---------------------------------------------------------------- process
\* sys.exit(return_code): None is success, an integer is the status
SysExit(code) == IF code = None THEN 0 ELSE code % 256

Modes == EffModes(args.modes)

PoolPcs == {"as_completed", "loop", "shutdown"}
InPool == ~args.sequential /\ pc \in PoolPcs

Running == {i \in DOMAIN pipe : pipe[i].pc \notin {"idle", "queued", "returned", "raised"}}

Init ==
    /\ args \in [confirm : BOOLEAN, sequential : BOOLEAN, modes : BatchModes]
    /\ pc = "load"
    /\ loaded = [yamls |-> 0, performances |-> 0]
    /\ manifest = [defaults |-> <<>>, performances |-> <<>>]
    /\ videos = <<>>
    /\ problems = <<>>
    /\ answer = [kind |-> "none", yes |-> <<>>]
    /\ pipe = <<>>
    /\ doneq = <<>>
    /\ handled = <<>>
    /\ return_code = None
    /\ retval = None
    /\ exc = ""
    /\ marketing = FALSE
    /\ youtube = {}
    /\ exitStatus = None

\* one yaml file is read and absorbed; `last` says it was the last argument
LoadYaml(Manifests) ==
    /\ pc = "load"
    /\ loaded.yamls < MaxYamls
    /\ \E man \in Manifests, last \in BOOLEAN :
        /\ loaded.performances + Len(man.performances) <= MaxPerformances
        /\ last \/ loaded.yamls + 1 < MaxYamls
        /\ manifest' = AbsorbYaml(manifest, man, loaded.yamls)
        /\ loaded' = [yamls |-> loaded.yamls + 1,
                      performances |-> loaded.performances + Len(man.performances)]
        /\ pc' = IF last THEN "construct" ELSE "load"
    /\ UNCHANGED <<args, videos, problems, answer, pipe, doneq, handled,
                   return_code, retval, exc, marketing, youtube, exitStatus>>

\* default_video and one Video per performance; a failure becomes a problem
Construct ==
    /\ pc = "construct"
    /\ LET built == BuildVideos(DefaultVideo(manifest.defaults), manifest.performances, 1)
       IN /\ videos' = built.videos
          /\ problems' = built.problems
    /\ pc' = "track"
    /\ UNCHANGED <<args, loaded, manifest, answer, pipe, doneq, handled,
                   return_code, retval, exc, marketing, youtube, exitStatus>>

TrackNums ==
    /\ pc = "track"
    /\ videos' = AssignTrackNums(videos)
    /\ pc' = "preview"
    /\ UNCHANGED <<args, loaded, manifest, problems, answer, pipe, doneq, handled,
                   return_code, retval, exc, marketing, youtube, exitStatus>>

\* the proposed output tree is logged and the missing tags are collected
Preview ==
    /\ pc = "preview"
    /\ problems' = problems \o TagProblems(videos)
    /\ pc' = "problems"
    /\ UNCHANGED <<args, loaded, manifest, videos, answer, pipe, doneq, handled,
                   return_code, retval, exc, marketing, youtube, exitStatus>>

\* if problems: a pre-confirmed run raises, otherwise the problems are logged
CheckProblems ==
    /\ pc = "problems"
    /\ IF problems # <<>> /\ args.confirm
       THEN exc' = "RuntimeError" /\ pc' = "raised"
       ELSE exc' = exc /\ pc' = IF args.confirm THEN "run" ELSE "prompt"
    /\ UNCHANGED <<args, loaded, manifest, videos, problems, answer, pipe, doneq,
                   handled, return_code, retval, marketing, youtube, exitStatus>>

\* if not confirm: ask; anything but y..., or an interrupt, returns 2
Prompt ==
    /\ pc = "prompt"
    /\ \/ \E raw \in Answers :
            LET yes == StripLower(raw) IN
            /\ answer' = [kind |-> "typed", yes |-> yes]
            /\ IF StartsWithY(yes)
               THEN retval' = retval /\ pc' = "run"
               ELSE retval' = 2 /\ pc' = "returned"
       \/ /\ answer' = [kind |-> "interrupt", yes |-> <<>>]
          /\ retval' = 2
          /\ pc' = "returned"
    /\ UNCHANGED <<args, loaded, manifest, videos, problems, pipe, doneq, handled,
                   return_code, exc, marketing, youtube, exitStatus>>

\* ------------------------------------------------------------ batch runner
\* sequential loop: where the loop stands once `h` videos have been seen
AfterSeq(h) == IF Len(h) = Len(videos) THEN "check" ELSE "seq"

\* variant: the break is missing
SeqAfterNoBreak(h, exit_code) == IF Len(h) = Len(videos) THEN "check" ELSE "seq"

\* sequential loop body: if exit_code != 0: return_code = exit_code; break
SeqAfter(h, exit_code) == IF exit_code # 0 THEN "check" ELSE AfterSeq(h)

\* as_completed loop: where the loop stands once `h` futures have been seen
AfterLoop(h) == IF Len(h) = Len(videos) THEN "shutdown" ELSE "loop"

\* return_code = None; then the sequential loop, or the pool with every video
\* submitted
Run ==
    /\ pc = "run"
    /\ return_code' = None
    /\ IF args.sequential
       THEN /\ pipe' = [i \in DOMAIN videos |-> IdlePipe]
            /\ pc' = AfterSeq(<<>>)
       ELSE /\ pipe' = [i \in DOMAIN videos |-> [IdlePipe EXCEPT !.pc = "queued"]]
            /\ pc' = "as_completed"
    /\ UNCHANGED <<args, loaded, manifest, videos, problems, answer, doneq, handled,
                   retval, exc, marketing, youtube, exitStatus>>

\* a pipeline call moves to r2; in the pool a finished call completes its future
Step(i, r2) ==
    /\ pipe' = [pipe EXCEPT ![i] = r2]
    /\ doneq' = IF Finished(r2) /\ InPool THEN Append(doneq, i) ELSE doneq
    /\ UNCHANGED <<args, pc, loaded, manifest, videos, problems, answer, handled,
                   return_code, retval, exc, marketing, youtube, exitStatus>>

\* sequential mode: exit_code = pipeline(video, modes=modes) is entered
SeqCall ==
    /\ pc = "seq"
    /\ LET i == Len(handled) + 1 IN
        /\ i \in DOMAIN pipe
        /\ pipe[i].pc = "idle"
        /\ Step(i, Enter(pipe[i], Modes))

\* sequential mode: the call is over; a non-zero code breaks the loop and an
\* exception leaves the batch runner
SeqReturn ==
    /\ pc = "seq"
    /\ LET i == Len(handled) + 1 IN
        /\ i \in DOMAIN pipe
        /\ Finished(pipe[i])
        /\ handled' = Append(handled, i)
        /\ IF pipe[i].pc = "raised"
           THEN exc' = "Exception" /\ pc' = "raised" /\ return_code' = return_code
           ELSE /\ exc' = exc
                /\ return_code' = IF pipe[i].exit_code # 0 THEN pipe[i].exit_code
                                  ELSE return_code
                /\ pc' = SeqAfter(handled', pipe[i].exit_code)
    /\ UNCHANGED <<args, loaded, manifest, videos, problems, answer, pipe, doneq,
                   retval, marketing, youtube, exitStatus>>

\* worker pool: a free worker takes the oldest queued call
WorkerStart ==
    /\ InPool
    /\ \E i \in DOMAIN pipe :
        /\ pipe[i].pc = "queued"
        /\ \A j \in 1..(i - 1) : pipe[j].pc # "queued"
        /\ Cardinality(Running) < MAX_WORKERS
        /\ Step(i, Enter(pipe[i], Modes))

Trim == \E i \in DOMAIN pipe :
    pipe[i].pc = "trim" /\ \E r2 \in StageOutcomes("trim", pipe[i], Modes) : Step(i, r2)

Mp3 == \E i \in DOMAIN pipe :
    pipe[i].pc = "mp3" /\ \E r2 \in StageOutcomes("mp3", pipe[i], Modes) : Step(i, r2)

Tag == \E i \in DOMAIN pipe :
    pipe[i].pc = "tag" /\ \E r2 \in StageOutcomes("tag", pipe[i], Modes) : Step(i, r2)

Thumb == \E i \in DOMAIN pipe :
    pipe[i].pc = "thumb" /\ \E r2 \in StageOutcomes("thumb", pipe[i], Modes) : Step(i, r2)

Gif == \E i \in DOMAIN pipe :
    pipe[i].pc = "gif" /\ \E r2 \in StageOutcomes("gif", pipe[i], Modes) : Step(i, r2)

\* as_completed is called: the futures already finished are yielded first, in
\* no particular order; the others follow as they complete
AsCompleted ==
    /\ pc = "as_completed"
    /\ doneq' \in Perms(doneq)
    /\ pc' = AfterLoop(handled)
    /\ UNCHANGED <<args, loaded, manifest, videos, problems, answer, pipe, handled,
                   return_code, retval, exc, marketing, youtube, exitStatus>>

\* what the loop body leaves in return_code for a future's result
Aggregate(rc, result) == IF result = Raised THEN 1 ELSE result

\* the body of the as_completed loop for the next finished future
Handle ==
    /\ pc = "loop"
    /\ doneq # <<>>
    /\ LET i == Head(doneq) IN
        /\ handled' = Append(handled, i)
        /\ doneq' = Tail(doneq)
        /\ return_code' = Aggregate(return_code, Result(pipe[i]))
        /\ pc' = IF pipe[i].pc = "raised" THEN "shutdown" ELSE AfterLoop(handled')
    /\ UNCHANGED <<args, loaded, manifest, videos, problems, answer, pipe,
                   retval, exc, marketing, youtube, exitStatus>>

\* variant: shutdown(wait=False)
ShutdownNoWait == TRUE

\* leaving the with block: shutdown(wait=True) returns once every submitted
\* call is over
ShutdownWaits == \A i \in DOMAIN pipe : Finished(pipe[i])

Shutdown ==
    /\ pc = "shutdown"
    /\ ShutdownWaits
    /\ pc' = "check"
    /\ UNCHANGED <<args, loaded, manifest, videos, problems, answer, pipe, doneq,
                   handled, return_code, retval, exc, marketing, youtube, exitStatus>>

\* if return_code != 0: return return_code
ReturnsEarly(rc) == rc # 0

Check ==
    /\ pc = "check"
    /\ IF ReturnsEarly(return_code)
       THEN retval' = return_code /\ pc' = "returned"
       ELSE retval' = retval /\ pc' = "text"
    /\ UNCHANGED <<args, loaded, manifest, videos, problems, answer, pipe, doneq,
                   handled, return_code, exc, marketing, youtube, exitStatus>>

\* the marketing text and one youtube text per video; the function ends
\* without a return statement
Text ==
    /\ pc = "text"
    /\ marketing' = ("market" \in Modes)
    /\ youtube' = IF "yt" \in Modes THEN DOMAIN videos ELSE {}
    /\ retval' = None
    /\ pc' = "returned"
    /\ UNCHANGED <<args, loaded, manifest, videos, problems, answer, pipe, doneq,
                   handled, return_code, exc, exitStatus>>

\* main: sys.exit(return_code); an exception that escaped ends the process
\* with status 1
Exit ==
    /\ pc \in {"returned", "raised"}
    /\ exitStatus' = IF pc = "raised" THEN 1 ELSE SysExit(retval)
    /\ pc' = "exited"
    /\ UNCHANGED <<args, loaded, manifest, videos, problems, answer, pipe, doneq,
                   handled, return_code, retval, exc, marketing, youtube>>

Next ==
    \/ LoadYaml(BatchManifests)
    \/ Construct
    \/ TrackNums
    \/ Preview
    \/ CheckProblems
    \/ Prompt
    \/ Run
    \/ SeqCall
    \/ SeqReturn
    \/ WorkerStart
    \/ Trim
    \/ Mp3
    \/ Tag
    \/ Thumb
    \/ Gif
    \/ AsCompleted
    \/ Handle
    \/ Shutdown
    \/ Check
    \/ Text
    \/ Exit

Spec == Init /\ [][Next]_vars

\* -------------------------------------------------- the merge on its own
InitMerge ==
    /\ Init
    /\ args.modes = MODES

NextMerge ==
    \/ LoadYaml(MergeManifests)
    \/ Construct
    \/ TrackNums
    \/ Preview
    \/ CheckProblems
    \/ Prompt
    \/ Exit

SpecMerge == InitMerge /\ [][NextMerge]_vars

\* ------------------------------------------- pipeline called on its own
\* pipeline(video, modes) for one video and any list of modes (none: MODES)
InitPipeline ==
    /\ args \in [confirm : {TRUE}, sequential : {TRUE}, modes : SUBSET MODES]
    /\ pc = "pipeline"
    /\ loaded = [yamls |-> 0, performances |-> 0]
    /\ manifest = [defaults |-> <<>>, performances |-> <<>>]
    /\ videos = <<[p |-> 0, track_num |-> 1, tagged |-> TRUE]>>
    /\ problems = <<>>
    /\ answer = [kind |-> "none", yes |-> <<>>]
    /\ pipe = <<IdlePipe>>
    /\ doneq = <<>>
    /\ handled = <<>>
    /\ return_code = None
    /\ retval = None
    /\ exc = ""
    /\ marketing = FALSE
    /\ youtube = {}
    /\ exitStatus = None

PipelineCall ==
    /\ pc = "pipeline"
    /\ \E i \in DOMAIN pipe : pipe[i].pc = "idle" /\ Step(i, Enter(pipe[i], Modes))

NextPipeline ==
    \/ PipelineCall
    \/ Trim
    \/ Mp3
    \/ Tag
    \/ Thumb
    \/ Gif

SpecPipeline == InitPipeline /\ [][NextPipeline]_vars

\* ================================================================ claims
\* vocabulary of the claims, read off the state and not off the operators above
Position(stage) == CHOOSE k \in DOMAIN STAGES : STAGES[k] = stage
Selected(modes) == SelectSeq(STAGES, LAMBDA st : st \in modes)
StageNames(r) == [k \in DOMAIN r.ran |-> r.ran[k][1]]
AllZero(r) == \A k \in DOMAIN r.ran : r.ran[k][2] = 0
ReturnedZero(r) == r.pc = "returned" /\ r.exit_code = 0
Failed(r) == r.pc = "raised" \/ (r.pc = "returned" /\ r.exit_code # 0)

Accepted == answer.kind = "typed" /\ answer.yes # <<>> /\ answer.yes[1] = "y"
Declined == answer.kind = "typed" /\ (answer.yes = <<>> \/ answer.yes[1] # "y")
Interrupted == answer.kind = "interrupt"
\* the batch went past the confirmation into the run section
RunEntered == pc \in {"seq", "as_completed", "loop", "shutdown", "check", "text"}
              \/ (pc \in {"returned", "raised", "exited"}
                  /\ ~Declined /\ ~Interrupted /\ exc # "RuntimeError")
\* the batch runner is past the run section (loop left, pool shut down)
RunLeft == RunEntered /\ pc \in {"check", "text", "returned", "raised", "exited"}
ConstructionFailed == \E k \in DOMAIN problems : problems[k].what = "performance"
Constructible == {p \in DOMAIN manifest.performances : manifest.performances[p].kind # "bad"}

\* the failures the as_completed loop has seen, and the last of them
SeenFailures == {k \in DOMAIN handled : Failed(pipe[handled[k]])}
LastSeenFailure == handled[CHOOSE k \in SeenFailures : \A h \in SeenFailures : h <= k]

\* C1: in worker-pool mode, once the as_completed loop has seen a failing item,
\* the aggregated return code is non-zero and is the code of the last failure
\* seen (1 for an exception), whatever completes afterwards.
C1_LastFailureKept ==
    (~args.sequential /\ pc = "check" /\ SeenFailures # {})
        => /\ return_code # 0
           /\ return_code = IF pipe[LastSeenFailure].pc = "raised" THEN 1
                            ELSE pipe[LastSeenFailure].exit_code

\* C2: when the run section was executed and every stage that ran exited with
\* zero, every item's pipeline returned 0 and the process exits with status 0,
\* in sequential and in worker-pool mode.
C2_AllZeroIsSuccess ==
    (pc = "exited" /\ RunEntered /\ \A i \in DOMAIN pipe : AllZero(pipe[i]))
        => /\ Len(pipe) = Len(videos)
           /\ \A i \in DOMAIN pipe : ReturnedZero(pipe[i])
           /\ exitStatus = 0

C2_Witness ==
    /\ pc = "exited" /\ args.sequential /\ Len(videos) = 2 /\ Len(pipe) = 2
    /\ exitStatus = 0
    /\ \A i \in DOMAIN pipe :
        ReturnedZero(pipe[i]) /\ AllZero(pipe[i]) /\ StageNames(pipe[i]) = STAGES

\* C3: the stages of a pipeline call start in the order trim, mp3, tag, thumb,
\* gif; a stage that exits non-zero is the last one started and its code is
\* what the call returns; a call whose stages all exit zero ran every selected
\* stage.
C3_StagesInOrderFirstFailureReturned ==
    \A i \in DOMAIN pipe :
        LET r == pipe[i] IN
        /\ \A a, b \in DOMAIN r.ran : a < b => Position(r.ran[a][1]) < Position(r.ran[b][1])
        /\ \A k \in DOMAIN r.ran :
              r.ran[k][2] > 0 => k = Len(r.ran) /\ r.pc = "returned" /\ r.exit_code = r.ran[k][2]
        /\ (r.pc = "returned" /\ AllZero(r)) => StageNames(r) = Selected(Modes)

C3_Witness ==
    /\ Modes = MODES
    /\ pipe[1].pc = "returned" /\ pipe[1].exit_code = 2
    /\ pipe[1].ran = <<(<<"trim", 0>>), (<<"mp3", 2>>)>>

\* C4 as claimed: a construction failure never aborts a confirmed batch, be it
\* confirmed by the flag or at the prompt: the run section is entered and the
\* first constructed item's pipeline is started.
C4_NeverAborts ==
    (pc = "exited" /\ ConstructionFailed /\ (args.confirm \/ Accepted))
        => /\ exc # "RuntimeError"
           /\ Len(pipe) = Len(videos)
           /\ (videos # <<>> => pipe[1].pc \notin {"idle", "queued"})

\* C4 amended: every entry after a failing one is still constructed; a run
\* confirmed at the prompt still executes the pipelines of the constructed
\* items (all of them in the pool, in list order up to the first failure when
\* sequential); a run pre-confirmed with the flag raises before any pipeline.
C4_FailureSkipsOnlyThatEntry ==
    /\ pc \notin {"load", "construct"} =>
        /\ Len(videos) = Cardinality(Constructible)
        /\ \A p \in Constructible : \E v \in DOMAIN videos : videos[v].p = p - 1
        /\ Cardinality({k \in DOMAIN problems : problems[k].what = "performance"})
              = Len(manifest.performances) - Cardinality(Constructible)
    /\ (pc = "exited" /\ ConstructionFailed /\ ~args.confirm /\ Accepted) =>
        /\ exc # "RuntimeError"
        /\ Len(pipe) = Len(videos)
        /\ ~args.sequential => \A i \in DOMAIN pipe : Finished(pipe[i])
        /\ args.sequential =>
              \A i \in DOMAIN pipe :
                  \/ Finished(pipe[i])
                  \/ \E j \in 1..(i - 1) : Failed(pipe[j])
    /\ (pc = "exited" /\ ConstructionFailed /\ args.confirm) =>
        exc = "RuntimeError" /\ pipe = <<>> /\ exitStatus = 1

C4_Witness ==
    /\ pc = "exited" /\ ~args.confirm /\ Accepted
    /\ Len(manifest.performances) = 2
    /\ manifest.performances[1].kind = "bad"
    /\ Len(videos) = 1 /\ videos[1].p = 1 /\ Len(pipe) = 1
    /\ ReturnedZero(pipe[1]) /\ StageNames(pipe[1]) = STAGES

\* neither the entry of video v nor the defaults give a track number
TrackUnset(v) ==
    /\ manifest.performances[videos[v].p + 1].track_num = None
    /\ "track_num" \notin DOMAIN manifest.defaults

\* C5 as claimed: the merge of N performance overrides yields exactly N items,
\* and an item whose track number is unset gets its position in the list.
C5_ExactlyNItems ==
    pc \notin {"load", "construct", "track"} =>
        /\ Len(videos) = loaded.performances
        /\ \A v \in DOMAIN videos : TrackUnset(v) => videos[v].track_num = v

\* C5 amended: the merged list holds the N overrides of all manifests; there is
\* one item per override that could be constructed, in manifest order (N items
\* when none fails); an item whose track number is unset gets its 1-based
\* position in the item list, and a track number that was given is kept.
C5_OneItemPerConstructedEntry ==
    /\ pc # "load" => Len(manifest.performances) = loaded.performances
    /\ pc \notin {"load", "construct", "track"} =>
        /\ Len(videos) = Cardinality(Constructible)
        /\ \A v, w \in DOMAIN videos : v < w => videos[v].p < videos[w].p
        /\ Constructible = DOMAIN manifest.performances => Len(videos) = loaded.performances
        /\ \A v \in DOMAIN videos :
              /\ TrackUnset(v) => videos[v].track_num = v
              /\ manifest.performances[videos[v].p + 1].track_num # None =>
                    videos[v].track_num = manifest.performances[videos[v].p + 1].track_num

C5_Witness ==
    /\ pc = "problems" /\ loaded.yamls = 2 /\ loaded.performances = 2
    /\ Len(videos) = 2
    /\ TrackUnset(1) /\ TrackUnset(2)
    /\ videos[1].track_num = 1 /\ videos[2].track_num = 2

\* C6: in sequential mode an item's pipeline starts only after every earlier
\* item's pipeline has returned 0, and once an item's pipeline returned
\* non-zero that code is what the batch returns and the process exits with.
C6_SequentialFailFast ==
    args.sequential =>
        /\ \A i \in DOMAIN pipe :
              pipe[i].pc # "idle" => \A j \in 1..(i - 1) : ReturnedZero(pipe[j])
        /\ \A i \in DOMAIN pipe :
              (pipe[i].pc = "returned" /\ pipe[i].exit_code # 0) =>
                  /\ pc \in {"returned", "exited"} => retval = pipe[i].exit_code
                  /\ pc = "exited" => exitStatus = pipe[i].exit_code

C6_Witness ==
    /\ args.sequential /\ pc = "exited" /\ Len(videos) = 2 /\ Len(pipe) = 2
    /\ pipe[1].pc = "returned" /\ pipe[1].exit_code = 2
    /\ pipe[2].pc = "idle"
    /\ retval = 2 /\ exitStatus = 2

\* C7: when the run is not pre-confirmed and the operator declines or
\* interrupts the prompt, the batch returns 2, the process exits with 2, no
\* pipeline was started and no text was written.
C7_DeclineAborts ==
    (~args.confirm /\ (Declined \/ Interrupted)) =>
        /\ pc \in {"returned", "exited"}
        /\ retval = 2
        /\ pc = "exited" => exitStatus = 2
        /\ pipe = <<>>
        /\ ~marketing /\ youtube = {}

C7_Witness ==
    /\ pc = "exited" /\ ~args.confirm /\ Declined
    /\ answer.yes = <<"n", "y">>
    /\ Len(videos) = 2 /\ exitStatus = 2

\* C8 as claimed: once the batch runner is past the run section and an item's
\* pipeline has failed, every item's pipeline has been started and is over.
C8_OthersStillRun ==
    (RunLeft /\ Len(pipe) = Len(videos) /\ \E i \in DOMAIN pipe : Failed(pipe[i]))
        => \A j \in DOMAIN pipe : Finished(pipe[j])

\* C8 amended: in worker-pool mode, once the with block is left and an item's
\* pipeline has failed (non-zero code or exception), every item's pipeline has
\* been started and is over, and each one whose stages all exited zero ran
\* every selected stage.
C8_PoolOthersStillRun ==
    (~args.sequential /\ RunLeft /\ \E i \in DOMAIN pipe : Failed(pipe[i]))
        => /\ Len(pipe) = Len(videos)
           /\ \A j \in DOMAIN pipe :
                 /\ Finished(pipe[j])
                 /\ (pipe[j].pc = "returned" /\ AllZero(pipe[j])) =>
                       StageNames(pipe[j]) = Selected(Modes)

C8_Witness ==
    /\ ~args.sequential /\ pc = "exited" /\ Len(videos) = 2 /\ Len(pipe) = 2
    /\ pipe[1].pc = "raised"
    /\ handled = <<1>>
    /\ ReturnedZero(pipe[2]) /\ StageNames(pipe[2]) = STAGES

\* C9: when a confirmed run of at least one item ends and every item's
\* pipeline returned 0, the marketing text was written if 'market' is a mode
\* and every item's youtube text if 'yt' is a mode; and no text is written
\* when the aggregated return code is a failure.
C9_TextAfterSuccess ==
    /\ (pc = "exited" /\ RunEntered /\ videos # <<>> /\ Len(pipe) = Len(videos)
        /\ \A i \in DOMAIN pipe : ReturnedZero(pipe[i]))
          => /\ "market" \in Modes => marketing
             /\ "yt" \in Modes => youtube = DOMAIN videos
    /\ (marketing \/ youtube # {}) => return_code = 0

\* the local variable a stage reads, and whether a call ended because a tool
\* failed (a non-zero exit, or an exception with the stage's input in place)
Needs(stage) ==
    CASE stage = "mp3" -> {"video_filepath"}
      [] stage = "tag" -> {"audio_filepath"}
      [] stage = "thumb" -> {"video_filepath"}
      [] stage = "gif" -> {"thumbnail_filepaths"}
      [] OTHER -> {}
ToolFailed(r) ==
    \/ \E k \in DOMAIN r.ran : r.ran[k][2] > 0
    \/ r.pc = "raised" /\ Needs(r.ran[Len(r.ran)][1]) \subseteq r.bound

\* C10: for every list of modes, a pipeline call that no external tool made
\* fail ends by returning, not by raising, and has run exactly the selected
\* stages in order.
C10_AnySubsetRuns ==
    \A i \in DOMAIN pipe :
        (Finished(pipe[i]) /\ ~ToolFailed(pipe[i]))
            => pipe[i].pc = "returned" /\ StageNames(pipe[i]) = Selected(Modes)

====
